---- MODULE Spec2Model ----
(***************************************************************************)
(* Model of the create-app deployment action (run() and its helpers).      *)
(* Strings are sequences of one-character strings, so that toLowerCase,    *)
(* includes, split and concatenation are computed as the code computes     *)
(* them.  The empty sequence is the empty (falsy) string.                  *)
(***************************************************************************)
EXTENDS Integers, Sequences, FiniteSets, TLC

\* ------------------------------------------------------------------ bounds

\* Largest deployment_timeout input explored, in units of the poll interval.
MaxTimeoutTicks == 3
\* Number of runs of the action against the same platform account.
MaxRuns == 2

\* ------------------------------------------------------------------ strings

UpperAlpha ==
  <<"A","B","C","D","E","F","G","H","I","J","K","L","M",
    "N","O","P","Q","R","S","T","U","V","W","X","Y","Z">>

LowerAlpha ==
  <<"a","b","c","d","e","f","g","h","i","j","k","l","m",
    "n","o","p","q","r","s","t","u","v","w","x","y","z">>

LowerChar(c) ==
  IF \E i \in DOMAIN UpperAlpha : UpperAlpha[i] = c
    THEN LowerAlpha[CHOOSE i \in DOMAIN UpperAlpha : UpperAlpha[i] = c]
    ELSE c

UpperChar(c) ==
  IF \E i \in DOMAIN LowerAlpha : LowerAlpha[i] = c
    THEN UpperAlpha[CHOOSE i \in DOMAIN LowerAlpha : LowerAlpha[i] = c]
    ELSE c

\* String.prototype.toLowerCase / toUpperCase
ToLowerCase(s) == [i \in DOMAIN s |-> LowerChar(s[i])]
ToUpperCase(s) == [i \in DOMAIN s |-> UpperChar(s[i])]

\* String.prototype.includes
Includes(s, sub) ==
  \E i \in 0..(Len(s) - Len(sub)) : SubSeq(s, i + 1, i + Len(sub)) = sub

\* String.prototype.startsWith
StartsWith(s, pre) ==
  Len(s) >= Len(pre) /\ SubSeq(s, 1, Len(pre)) = pre

\* a || b on strings: the first operand unless it is empty
OrElse(a, b) == IF a # <<>> THEN a ELSE b

\* String.prototype.split("/"): the segments between the separators
RECURSIVE Split(_, _)
Split(s, sep) ==
  IF \A i \in DOMAIN s : s[i] # sep
    THEN <<s>>
    ELSE LET k == CHOOSE i \in DOMAIN s :
                     s[i] = sep /\ \A j \in 1..(i - 1) : s[j] # sep
         IN  <<SubSeq(s, 1, k - 1)>> \o Split(SubSeq(s, k + 1, Len(s)), sep)

\* Array.prototype.join("/")
RECURSIVE Join(_, _)
Join(parts, sep) ==
  IF parts = <<>> THEN <<>>
  ELSE IF Len(parts) = 1 THEN parts[1]
  ELSE parts[1] \o <<sep>> \o Join(Tail(parts), sep)

\* String(n) for a non-negative integer
Digits == <<"0","1","2","3","4","5","6","7","8","9">>

RECURSIVE NumToString(_)
NumToString(n) ==
  IF n < 10 THEN <<Digits[n + 1]>>
  ELSE NumToString(n \div 10) \o <<Digits[(n % 10) + 1]>>

\* ------------------------------------------------------------------ literals

S_library    == <<"l","i","b","r","a","r","y">>
S_latest     == <<"l","a","t","e","s","t">>
S_dot        == <<".">>
S_Dockerfile == <<"D","o","c","k","e","r","f","i","l","e">>
S_cdn        == <<"c","d","n">>
S_anycast    == <<"a","n","y","c","a","s","t">>
S_CDN        == <<"C","D","N">>
S_ANYCAST    == <<"A","N","Y","C","A","S","T">>
S_endpointSuffix == <<"-","e","n","d","p","o","i","n","t">>
S_http       == <<"h","t","t","p">>
S_httpsScheme == <<"h","t","t","p","s",":","/","/">>
S_docker     == <<"d","o","c","k","e","r">>
S_dockerIo   == <<"d","o","c","k","e","r",".","i","o">>
S_DockerHub  == <<"D","o","c","k","e","r"," ","H","u","b">>
S_Active     == <<"A","c","t","i","v","e">>
S_single     == <<"s","i","n","g","l","e">>
S_advanced   == <<"a","d","v","a","n","c","e","d">>

\* ------------------------------------------------------------------ image references

\* A reference of one segment treated like any other: its segment dropped
\* when it looks like a registry host.
parseImageParts_hostAlone(fullImage) ==
  LET parts == Split(fullImage, "/")
      hasRegistryHost == Includes(parts[1], <<".">>) \/ Includes(parts[1], <<":">>)
      pathParts == IF hasRegistryHost THEN Tail(parts) ELSE parts
      imageName == IF pathParts = <<>> THEN <<>> ELSE pathParts[Len(pathParts)]
      rest == IF pathParts = <<>> THEN <<>> ELSE SubSeq(pathParts, 1, Len(pathParts) - 1)
  IN  [imageNamespace |-> OrElse(Join(rest, "/"), S_library),
       imageName |-> imageName]

\* The first segment kept whatever it holds.
parseImageParts_keepHost(fullImage) ==
  LET parts == Split(fullImage, "/")
      imageName == parts[Len(parts)]
      rest == SubSeq(parts, 1, Len(parts) - 1)
  IN  [imageNamespace |-> OrElse(Join(rest, "/"), S_library),
       imageName |-> imageName]

\* parseImageParts(fullImage)
parseImageParts(fullImage) ==
  LET parts == Split(fullImage, "/") IN
  IF Len(parts) = 1
    THEN [imageNamespace |-> S_library, imageName |-> parts[1]]
    ELSE
      LET hasRegistryHost == Includes(parts[1], <<".">>) \/ Includes(parts[1], <<":">>)
          pathParts == IF hasRegistryHost THEN Tail(parts) ELSE parts
          \* pathParts.pop() || ""
          imageName == IF pathParts = <<>> THEN <<>> ELSE pathParts[Len(pathParts)]
          rest == IF pathParts = <<>> THEN <<>> ELSE SubSeq(pathParts, 1, Len(pathParts) - 1)
      IN  [imageNamespace |-> OrElse(Join(rest, "/"), S_library),
           imageName |-> imageName]

\* ------------------------------------------------------------------ config parsing

\* A raw container entry of either source.  An absent string is <<>>, an absent
\* number is 0 (both falsy in the code), build is TRUE only for `build: true`.
\* env is an ordered sequence of <<key, value>> pairs; endpoints is read by the
\* file-based source only.

\* Results of an operation that may throw.
Ok(v)  == [ok |-> TRUE, val |-> v]
Err(e) == [ok |-> FALSE, err |-> e]

\* Default container port of a port mapping without `container`.
DefaultContainerPort == 80

\* One endpoint entry of bunny.toml (rawEndpoints.map callback)
parseTomlEndpoint(ep, cName) ==
  [name  |-> OrElse(ep.name, cName \o S_endpointSuffix),
   type  |-> ToLowerCase(OrElse(ep.type, S_cdn)),
   ports |-> [k \in DOMAIN ep.ports |->
               [container |-> IF ep.ports[k].container # 0
                                THEN ep.ports[k].container
                                ELSE DefaultContainerPort,
                exposed   |-> ep.ports[k].exposed]]]

\* The tag of a built container defaulting to "latest" as well.
parseTomlContainer_tagLatest(c, i, name, defaults) ==
  LET cName   == c.name
      isBuild == c.build = TRUE
      image0  == c.image
      image1  == IF image0 = <<>> /\ isBuild
                   THEN defaults.registry \o <<"/">> \o name
                   ELSE image0
      image2  == IF isBuild /\ ~Includes(image1, <<"/">>)
                   THEN defaults.registry \o <<"/">> \o image1
                   ELSE image1
      endpoints == [k \in DOMAIN c.endpoints |-> parseTomlEndpoint(c.endpoints[k], cName)]
      port    == IF c.port # 0 THEN c.port
                 ELSE IF Len(endpoints) > 0 /\ Len(endpoints[1].ports) > 0
                   THEN endpoints[1].ports[1].container
                 ELSE 0
  IN
  IF cName = <<>> THEN Err([kind |-> "ConfigError", what |-> "missing name", at |-> i])
  ELSE IF image1 = <<>>
    THEN Err([kind |-> "ConfigError", what |-> "missing image", at |-> i])
  ELSE Ok([name       |-> cName,
           image      |-> image2,
           tag        |-> OrElse(c.tag, S_latest),
           port       |-> port,
           build      |-> isBuild,
           context    |-> OrElse(c.context, S_dot),
           dockerfile |-> OrElse(c.dockerfile, S_Dockerfile),
           env        |-> c.env,
           endpoints  |-> endpoints])

\* One container entry of bunny.toml (rawContainers.map callback)
parseTomlContainer(c, i, name, defaults) ==
  LET cName   == c.name
      isBuild == c.build = TRUE
      image0  == c.image
      image1  == IF image0 = <<>> /\ isBuild
                   THEN defaults.registry \o <<"/">> \o name
                   ELSE image0
      image2  == IF isBuild /\ ~Includes(image1, <<"/">>)
                   THEN defaults.registry \o <<"/">> \o image1
                   ELSE image1
      endpoints == [k \in DOMAIN c.endpoints |-> parseTomlEndpoint(c.endpoints[k], cName)]
      port    == IF c.port # 0 THEN c.port
                 ELSE IF Len(endpoints) > 0 /\ Len(endpoints[1].ports) > 0
                   THEN endpoints[1].ports[1].container
                 ELSE 0
  IN
  IF cName = <<>> THEN Err([kind |-> "ConfigError", what |-> "missing name", at |-> i])
  ELSE IF image1 = <<>>
    THEN Err([kind |-> "ConfigError", what |-> "missing image", at |-> i])
  ELSE Ok([name       |-> cName,
           image      |-> image2,
           tag        |-> OrElse(c.tag, IF isBuild THEN defaults.sha ELSE S_latest),
           port       |-> port,
           build      |-> isBuild,
           context    |-> OrElse(c.context, S_dot),
           dockerfile |-> OrElse(c.dockerfile, S_Dockerfile),
           env        |-> c.env,
           endpoints  |-> endpoints])

\* Array.prototype.map with a callback that may throw: the first failing
\* index decides the error.
MapOrThrow(results) ==
  IF \E i \in DOMAIN results : ~results[i].ok
    THEN results[CHOOSE i \in DOMAIN results :
                   ~results[i].ok /\ \A j \in 1..(i - 1) : results[j].ok]
    ELSE Ok([i \in DOMAIN results |-> results[i].val])

\* parseFromToml(tomlPath, defaults): toml is the parsed file
parseFromToml(toml, defaults) ==
  LET name == toml.name
      res  == MapOrThrow([i \in DOMAIN toml.containers |->
                 parseTomlContainer(toml.containers[i], i, name, defaults)])
  IN  IF res.ok THEN Ok([name |-> name, containers |-> res.val]) ELSE res

\* The entry accepted without the name test.
parseYamlContainer_noNameCheck(c, i, defaults) ==
  LET isBuild == c.build = TRUE
      image   == IF isBuild /\ ~Includes(c.image, <<"/">>)
                   THEN defaults.registry \o <<"/">> \o c.image
                   ELSE c.image
  IN
  IF c.image = <<>>
    THEN Err([kind |-> "ConfigError", what |-> "missing image", at |-> i])
  ELSE Ok([name       |-> c.name,
           image      |-> image,
           tag        |-> OrElse(c.tag, IF isBuild THEN defaults.sha ELSE S_latest),
           port       |-> c.port,
           build      |-> isBuild,
           context    |-> OrElse(c.context, S_dot),
           dockerfile |-> OrElse(c.dockerfile, S_Dockerfile),
           env        |-> c.env,
           endpoints  |-> <<>>])

\* The default registry put in front of every image without "/", built or not.
parseYamlContainer_rewriteAll(c, i, defaults) ==
  LET isBuild == c.build = TRUE
      image   == IF ~Includes(c.image, <<"/">>)
                   THEN defaults.registry \o <<"/">> \o c.image
                   ELSE c.image
  IN
  IF c.name = <<>> THEN Err([kind |-> "ConfigError", what |-> "missing name", at |-> i])
  ELSE IF c.image = <<>>
    THEN Err([kind |-> "ConfigError", what |-> "missing image", at |-> i])
  ELSE Ok([name       |-> c.name,
           image      |-> image,
           tag        |-> OrElse(c.tag, IF isBuild THEN defaults.sha ELSE S_latest),
           port       |-> c.port,
           build      |-> isBuild,
           context    |-> OrElse(c.context, S_dot),
           dockerfile |-> OrElse(c.dockerfile, S_Dockerfile),
           env        |-> c.env,
           endpoints  |-> <<>>])

\* One container entry of the inline list (parsed.map callback)
parseYamlContainer(c, i, defaults) ==
  LET isBuild == c.build = TRUE
      image   == IF isBuild /\ ~Includes(c.image, <<"/">>)
                   THEN defaults.registry \o <<"/">> \o c.image
                   ELSE c.image
  IN
  IF c.name = <<>> THEN Err([kind |-> "ConfigError", what |-> "missing name", at |-> i])
  ELSE IF c.image = <<>>
    THEN Err([kind |-> "ConfigError", what |-> "missing image", at |-> i])
  ELSE Ok([name       |-> c.name,
           image      |-> image,
           tag        |-> OrElse(c.tag, IF isBuild THEN defaults.sha ELSE S_latest),
           port       |-> c.port,
           build      |-> isBuild,
           context    |-> OrElse(c.context, S_dot),
           dockerfile |-> OrElse(c.dockerfile, S_Dockerfile),
           env        |-> c.env,
           endpoints  |-> <<>>])

\* parseFromYaml(raw, defaults): raw is the inline input as yaml.load reads it,
\* [present |-> the input text is non-empty, isList |-> it parses to a list,
\*  items |-> the entries of that list]
parseFromYaml(raw, defaults) ==
  IF ~raw.isList
    THEN Err([kind |-> "ConfigError", what |-> "not a list", at |-> 0])
    ELSE MapOrThrow([i \in DOMAIN raw.items |->
                       parseYamlContainer(raw.items[i], i, defaults)])

\* The inline list consulted before the descriptor file.
loadConfig_inlineFirst(inp) ==
  LET defaults == [registry |-> inp.registry, sha |-> OrElse(inp.sha, S_latest)]
      toml     == parseFromToml(inp.toml, defaults)
      yamlRes  == parseFromYaml(inp.containersInput, defaults)
  IN
  IF inp.containersInput.present
    THEN IF ~yamlRes.ok THEN yamlRes
         ELSE IF inp.appName = <<>>
           THEN Err([kind |-> "ConfigError", what |-> "missing app name", at |-> 0])
           ELSE Ok([appName |-> inp.appName,
                    containers |-> yamlRes.val,
                    createEndpoint |-> inp.createEndpointInput])
  ELSE IF inp.hasToml
    THEN IF ~toml.ok THEN toml
         ELSE LET appName == OrElse(inp.appName, toml.val.name) IN
              IF appName = <<>>
                THEN Err([kind |-> "ConfigError", what |-> "missing app name", at |-> 0])
                ELSE Ok([appName |-> appName,
                         containers |-> toml.val.containers,
                         createEndpoint |->
                           \E i \in DOMAIN toml.val.containers :
                              Len(toml.val.containers[i].endpoints) > 0])
  ELSE Err([kind |-> "ConfigError", what |-> "no config source", at |-> 0])

\* The endpoint policy read from the create_endpoint input for both sources.
loadConfig_flagOnly(inp) ==
  LET defaults == [registry |-> inp.registry, sha |-> OrElse(inp.sha, S_latest)]
      hasToml  == inp.hasToml
      toml     == parseFromToml(inp.toml, defaults)
      yamlRes  == parseFromYaml(inp.containersInput, defaults)
  IN
  IF hasToml
    THEN IF ~toml.ok THEN toml
         ELSE LET appName == OrElse(inp.appName, toml.val.name) IN
              IF appName = <<>>
                THEN Err([kind |-> "ConfigError", what |-> "missing app name", at |-> 0])
                ELSE Ok([appName |-> appName,
                         containers |-> toml.val.containers,
                         createEndpoint |-> inp.createEndpointInput])
  ELSE IF inp.containersInput.present
    THEN IF ~yamlRes.ok THEN yamlRes
         ELSE IF inp.appName = <<>>
           THEN Err([kind |-> "ConfigError", what |-> "missing app name", at |-> 0])
           ELSE Ok([appName |-> inp.appName,
                    containers |-> yamlRes.val,
                    createEndpoint |-> inp.createEndpointInput])
  ELSE Err([kind |-> "ConfigError", what |-> "no config source", at |-> 0])

\* The "Load config" block of run(): the source chosen, the app name and the
\* endpoint-creation policy.
loadConfig(inp) ==
  LET defaults == [registry |-> inp.registry, sha |-> OrElse(inp.sha, S_latest)]
      hasToml  == inp.hasToml
      toml     == parseFromToml(inp.toml, defaults)
      yamlRes  == parseFromYaml(inp.containersInput, defaults)
  IN
  IF hasToml
    THEN IF ~toml.ok THEN toml
         ELSE LET appName == OrElse(inp.appName, toml.val.name) IN
              IF appName = <<>>
                THEN Err([kind |-> "ConfigError", what |-> "missing app name", at |-> 0])
                ELSE Ok([appName |-> appName,
                         containers |-> toml.val.containers,
                         createEndpoint |->
                           \E i \in DOMAIN toml.val.containers :
                              Len(toml.val.containers[i].endpoints) > 0])
  ELSE IF inp.containersInput.present
    THEN IF ~yamlRes.ok THEN yamlRes
         ELSE IF inp.appName = <<>>
           THEN Err([kind |-> "ConfigError", what |-> "missing app name", at |-> 0])
           ELSE Ok([appName |-> inp.appName,
                    containers |-> yamlRes.val,
                    createEndpoint |-> inp.createEndpointInput])
  ELSE Err([kind |-> "ConfigError", what |-> "no config source", at |-> 0])

\* ------------------------------------------------------------------ registries

\* Array.prototype.find: the first element satisfying the test, as a sequence
\* of at most one element (<<>> for undefined).
FindFirst(items, Test(_)) ==
  IF \E i \in DOMAIN items : Test(items[i])
    THEN <<items[CHOOSE i \in DOMAIN items :
                   Test(items[i]) /\ \A j \in 1..(i - 1) : ~Test(items[j])]>>
    ELSE <<>>

\* The test of the Docker Hub lookup
isDockerHubRegistry(r) ==
  r.hostName = S_dockerIo \/ Includes(ToLowerCase(r.displayName), S_docker)

\* containers.some((c) => !c.build)
hasPublicImages(cs) == \E i \in DOMAIN cs : ~cs[i].build

\* containers.filter((c) => c.build)
buildContainers(cs) == SelectSeq(cs, LAMBDA c : c.build)

\* The private-registry block entered whether or not a container is built.
wantsPrivateRegistry_anyContainer(cs, inp) ==
  inp.bunnyRegistryName # <<>> \/ inp.ensureBunnyRegistry

\* The guard of the private-registry block
wantsPrivateRegistry(cs, inp) ==
  Len(buildContainers(cs)) > 0
    /\ (inp.bunnyRegistryName # <<>> \/ inp.ensureBunnyRegistry)

\* (bunnyRegistryName || registryUsername).toLowerCase()
searchName(inp) == ToLowerCase(OrElse(inp.bunnyRegistryName, inp.registryUsername))

\* The private-registry lookup comparing the names as written.
isPrivateRegistry_caseSensitive(r, inp) ==
  r.displayName = OrElse(inp.bunnyRegistryName, inp.registryUsername)

\* The test of the private-registry lookup
isPrivateRegistry(r, inp) == ToLowerCase(r.displayName) = searchName(inp)

\* ------------------------------------------------------------------ app descriptor

\* runtimeType
runtimeType(inp) == IF inp.deploymentType = S_advanced THEN "Reserved" ELSE "Shared"

\* regionSettings; maxAllowedRegions 0 stands for the absent key
regionSettings(inp) ==
  IF inp.deploymentType = S_single /\ inp.region # <<>>
    THEN [requiredRegionIds |-> <<inp.region>>,
          allowedRegionIds  |-> <<inp.region>>,
          maxAllowedRegions |-> 1]
    ELSE [requiredRegionIds |-> <<>>,
          allowedRegionIds  |-> <<>>,
          maxAllowedRegions |-> 0]

\* The private identifier given to every container once one is resolved.
imageRegistryId_anyContainer(c, privateId, dockerHubId) ==
  IF privateId # <<>> THEN privateId ELSE OrElse(dockerHubId, <<>>)

\* imageRegistryId of a container template
imageRegistryId(c, privateId, dockerHubId) ==
  IF c.build /\ privateId # <<>> THEN privateId ELSE OrElse(dockerHubId, <<>>)

\* endpointContainer || containers.find((ct) => ct.port)?.name || containers[0].name
exposeContainerName(cs, inp) ==
  LET firstWithPort == FindFirst(cs, LAMBDA ct : ct.port # 0) IN
  OrElse(inp.endpointContainer,
         OrElse(IF firstWithPort = <<>> THEN <<>> ELSE firstWithPort[1].name,
                cs[1].name))

\* An endpoint translated from a bunny.toml declaration.  An absent cdn or
\* anycast block is <<>>, a present one a one-element sequence.
declaredEndpoint(ep) ==
  LET portMappings == [k \in DOMAIN ep.ports |->
                         [containerPort |-> ep.ports[k].container,
                          exposedPort   |-> ep.ports[k].exposed]]
  IN  [displayName |-> ep.name,
       cdn     |-> IF ep.type = S_cdn
                     THEN <<[portMappings |-> portMappings]>> ELSE <<>>,
       anycast |-> IF ep.type # S_cdn /\ ep.type = S_anycast
                     THEN <<[type |-> "IPv4", portMappings |-> portMappings]>>
                     ELSE <<>>]

\* The endpoint synthesized from the run-level defaults
synthesizedEndpoint(c, appName, inp) ==
  LET resolvedName == OrElse(inp.endpointName, appName \o S_endpointSuffix)
      resolvedType == ToUpperCase(OrElse(inp.endpointType, S_CDN))
      portMappings == <<[containerPort |-> c.port, exposedPort |-> 0]>>
  IN  [displayName |-> resolvedName,
       cdn     |-> IF resolvedType = S_CDN
                     THEN <<[portMappings |-> portMappings]>> ELSE <<>>,
       anycast |-> IF resolvedType # S_CDN /\ resolvedType = S_ANYCAST
                     THEN <<[type |-> "IPv4", portMappings |-> portMappings]>>
                     ELSE <<>>]

\* template.endpoints (<<>> when the key is not set)
templateEndpoints(c, cs, appName, createEndpoint, inp) ==
  IF Len(c.endpoints) > 0
    THEN [k \in DOMAIN c.endpoints |-> declaredEndpoint(c.endpoints[k])]
  ELSE IF createEndpoint /\ c.port # 0
    THEN IF c.name = exposeContainerName(cs, inp)
           THEN <<synthesizedEndpoint(c, appName, inp)>>
           ELSE <<>>
  ELSE <<>>

\* One element of containerTemplates
containerTemplate(c, cs, appName, createEndpoint, privateId, dockerHubId, inp) ==
  LET parts == parseImageParts(c.image) IN
  [name            |-> c.name,
   image           |-> c.image \o <<":">> \o c.tag,
   imageName       |-> parts.imageName,
   imageNamespace  |-> parts.imageNamespace,
   imageTag        |-> c.tag,
   imageRegistryId |-> imageRegistryId(c, privateId, dockerHubId),
   imagePullPolicy |-> "Always",
   environmentVariables |-> c.env,
   endpoints       |-> templateEndpoints(c, cs, appName, createEndpoint, inp)]

\* appPayload
buildAppPayload(cs, appName, createEndpoint, privateId, dockerHubId, inp) ==
  [name          |-> appName,
   runtimeType   |-> runtimeType(inp),
   regionSettings |-> regionSettings(inp),
   containerTemplates |->
     [i \in DOMAIN cs |->
        containerTemplate(cs[i], cs, appName, createEndpoint, privateId, dockerHubId, inp)]]

\* ------------------------------------------------------------------ endpoint resolution

\* The container templates scanned before the top-level address is read.
resolveHostname_templatesFirst(appDetails) ==
  LET ct == FindFirst(appDetails.containerTemplates, LAMBDA t : Len(t.endpoints) > 0)
  IN  IF ct # <<>> /\ ct[1].endpoints[1].publicHost # <<>>
        THEN ct[1].endpoints[1].publicHost
        ELSE appDetails.displayEndpointAddress

\* hostname from the application-detail response: displayEndpoint.address
\* first, else endpoints[0].publicHost of the first container template that
\* has endpoints
resolveHostname(appDetails) ==
  IF appDetails.displayEndpointAddress # <<>>
    THEN appDetails.displayEndpointAddress
    ELSE LET ct == FindFirst(appDetails.containerTemplates,
                             LAMBDA t : Len(t.endpoints) > 0)
         IN  IF ct = <<>> THEN <<>> ELSE ct[1].endpoints[1].publicHost

\* appUrl
resolveAppUrl(hostname) ==
  IF hostname # <<>>
    THEN IF StartsWith(hostname, S_http) THEN hostname ELSE S_httpsScheme \o hostname
    ELSE <<>>

\* ------------------------------------------------------------------ deployment status

\* The success test reading any reported status as success.
isActive_anyStatus(status) == status # <<>>

\* The success test of the polling loop
isActive(status) == status = S_Active

\* ------------------------------------------------------------------ state

VARIABLES
  inp,                  \* the inputs of the action, read once at the start of a run
  run,                  \* number of the current run against the platform account
  pc,                   \* position of run() in its body
  appName,              \* resolved application name
  containers,           \* resolved ContainerDef list
  createEndpoint,       \* resolved endpoint-creation policy
  buildIdx,             \* index of the build container being built and pushed
  registries,           \* platform: the registries of the account, in list order
  apps,                 \* platform: number of applications created so far
  registryItems,        \* the registry list as fetched by this run
  dockerHubRegistryId,  \* <<>> while undefined
  privateRegistryId,    \* <<>> while undefined
  appPayload,           \* body of POST /apps (<<>> before it is built)
  appId,                \* 0 before the app is created
  now,                  \* Date.now(), in seconds
  deadline,             \* [nan, v]: deadline of the polling loop
  status,               \* last status read by the polling loop
  statuses,             \* the statuses the polls of this run returned, in order
  inFlight,             \* platform calls issued and not yet answered
  calls,                \* external invocations of this run, in order of issue
  failed,               \* core.setFailed was called
  error,                \* the error caught (<<>> when none)
  warning,              \* core.warning was called by the deploy step
  outputs,              \* core.setOutput values (<<>> while unset)
  appDetails,           \* the application detail fetched for the endpoint (<<>> before)
  prev                  \* what the previous run resolved

vars ==
  <<inp, run, pc, appName, containers, createEndpoint, buildIdx, registries, apps,
    registryItems, dockerHubRegistryId, privateRegistryId, appPayload, appId, now,
    deadline, status, statuses, inFlight, calls, failed, error, warning, outputs,
    appDetails, prev>>

configVars   == <<appName, containers, createEndpoint>>
registryVars == <<registryItems, dockerHubRegistryId, privateRegistryId>>
pollVars     == <<now, deadline, status, statuses, warning>>
resultVars   == <<failed, error, outputs>>

\* sleep(10_000)
PollIntervalSec == 10

\* Longest time one status fetch takes, in seconds.
MaxLatencySec == 5
Latencies == {0, MaxLatencySec}

NoOutputs == [app_id |-> <<>>, app_url |-> <<>>, endpoint_hostname |-> <<>>]
NoPrev    == [completed |-> FALSE, dockerHubRegistryId |-> <<>>,
              privateRegistryId |-> <<>>]

\* The state of run() before its first statement.
FreshRun ==
  /\ pc = "start"
  /\ appName = <<>>
  /\ containers = <<>>
  /\ createEndpoint = FALSE
  /\ buildIdx = 0
  /\ registryItems = <<>>
  /\ dockerHubRegistryId = <<>>
  /\ privateRegistryId = <<>>
  /\ appPayload = <<>>
  /\ appId = 0
  /\ now = 0
  /\ deadline = [nan |-> FALSE, v |-> 0]
  /\ status = <<>>
  /\ statuses = <<>>
  /\ inFlight = {}
  /\ calls = <<>>
  /\ failed = FALSE
  /\ error = <<>>
  /\ warning = FALSE
  /\ outputs = NoOutputs
  /\ appDetails = <<>>

\* The same values for the start of the next run.
FreshRunNext ==
  /\ pc' = "start"
  /\ appName' = <<>>
  /\ containers' = <<>>
  /\ createEndpoint' = FALSE
  /\ buildIdx' = 0
  /\ registryItems' = <<>>
  /\ dockerHubRegistryId' = <<>>
  /\ privateRegistryId' = <<>>
  /\ appPayload' = <<>>
  /\ appId' = 0
  /\ now' = 0
  /\ deadline' = [nan |-> FALSE, v |-> 0]
  /\ status' = <<>>
  /\ statuses' = <<>>
  /\ inFlight' = {}
  /\ calls' = <<>>
  /\ failed' = FALSE
  /\ error' = <<>>
  /\ warning' = FALSE
  /\ outputs' = NoOutputs
  /\ appDetails' = <<>>

\* ------------------------------------------------------------------ steps of run()

\* The error caught and the run ended without core.setFailed.
Throw_notMarked(e) ==
  /\ failed' = FALSE
  /\ error' = <<e>>
  /\ pc' = "done"

\* catch (e) { core.setFailed(e) }: the run ends failed
Throw(e) ==
  /\ failed' = TRUE
  /\ error' = <<e>>
  /\ pc' = "done"

\* The external invocations of run(): docker commands and platform calls
ExecLogin == [method |-> "exec", path |-> "docker login", step |-> "login"]
ExecBuild == [method |-> "exec", path |-> "docker build", step |-> "build"]
ExecPush  == [method |-> "exec", path |-> "docker push", step |-> "push"]
GetRegistries       == [method |-> "GET", path |-> "/registries", step |-> "list registries"]
PostRegistryPublic  == [method |-> "POST", path |-> "/registries", step |-> "create public registry"]
PostRegistryPrivate == [method |-> "POST", path |-> "/registries", step |-> "create private registry"]
PostApps     == [method |-> "POST", path |-> "/apps", step |-> "create app"]
PostDeploy   == [method |-> "POST", path |-> "/apps/{id}/deploy", step |-> "deploy"]
GetAppStatus == [method |-> "GET", path |-> "/apps/{id}", step |-> "poll status"]
GetAppDetail == [method |-> "GET", path |-> "/apps/{id}", step |-> "endpoint detail"]

\* The errors api() and exec.exec() throw
ApiError(call) == [kind |-> "PlatformError", what |-> call.step, at |-> 0]
ExecError(cmd) == [kind |-> "BuildError", what |-> cmd.step, at |-> 0]

\* api(): the request is sent
Issue(call) ==
  /\ inFlight' = inFlight \cup {call}
  /\ calls' = Append(calls, call)

\* api(): the response has arrived
Answered(call) ==
  /\ call \in inFlight
  /\ inFlight' = inFlight \ {call}

\* The build step left out.
afterConfig_noBuild(cs, i) == "listRegistries"

\* Where run() goes after the config is loaded
afterConfig(cs, i) ==
  IF Len(buildContainers(cs)) > 0
    THEN IF i.registryPassword # <<>> THEN "login" ELSE "build"
    ELSE "listRegistries"

\* Load config, endpoint policy, buildContainers
LoadConfig ==
  /\ pc = "start"
  /\ LET cfg == loadConfig(inp) IN
     IF cfg.ok
       THEN /\ appName' = cfg.val.appName
            /\ containers' = cfg.val.containers
            /\ createEndpoint' = cfg.val.createEndpoint
            /\ pc' = afterConfig(cfg.val.containers, inp)
            /\ buildIdx' = 1
            /\ UNCHANGED resultVars
       ELSE /\ Throw(cfg.err)
            /\ UNCHANGED <<configVars, buildIdx, outputs>>
  /\ UNCHANGED <<inp, run, appDetails, registries, apps, registryVars, appPayload, appId,
                 pollVars, inFlight, calls, prev>>

\* An exec.exec step: the command runs and either succeeds or exits non-zero
Exec(at, cmd, next, nextIdx) ==
  /\ pc = at
  /\ calls' = Append(calls, cmd)
  /\ \E ok \in BOOLEAN :
       IF ok THEN /\ pc' = next
                  /\ buildIdx' = nextIdx
                  /\ UNCHANGED resultVars
             ELSE /\ Throw(ExecError(cmd))
                  /\ UNCHANGED <<buildIdx, outputs>>
  /\ UNCHANGED <<inp, run, appDetails, configVars, registries, apps, registryVars, appPayload,
                 appId, pollVars, inFlight, prev>>

\* docker login
DockerLogin == Exec("login", ExecLogin, "build", buildIdx)

\* docker build of buildContainers[buildIdx]
DockerBuild == Exec("build", ExecBuild, "push", buildIdx)

\* docker push of buildContainers[buildIdx], then the next build container
DockerPush ==
  Exec("push", ExecPush,
       IF buildIdx < Len(buildContainers(containers)) THEN "build" ELSE "listRegistries",
       buildIdx + 1)

\* GET /registries is sent
ListRegistriesCall ==
  /\ pc = "listRegistries"
  /\ Issue(GetRegistries)
  /\ pc' = "listRegistriesWait"
  /\ UNCHANGED <<inp, run, appDetails, configVars, buildIdx, registries, apps, registryVars,
                 appPayload, appId, pollVars, resultVars, prev>>

\* GET /registries answers: registryItems
ListRegistriesResp ==
  /\ pc = "listRegistriesWait"
  /\ Answered(GetRegistries)
  /\ \E ok \in BOOLEAN :
       IF ok THEN /\ registryItems' = registries
                  /\ pc' = "ensurePublic"
                  /\ UNCHANGED resultVars
             ELSE /\ Throw(ApiError(GetRegistries))
                  /\ UNCHANGED <<registryItems, outputs>>
  /\ UNCHANGED <<inp, run, appDetails, configVars, buildIdx, registries, apps,
                 dockerHubRegistryId, privateRegistryId, appPayload, appId,
                 pollVars, calls, prev>>

\* The id the platform gives the next registry it creates
nextRegistryId(rs) ==
  IF rs = <<>> THEN 1
  ELSE 1 + (CHOOSE m \in {rs[i].id : i \in DOMAIN rs} :
              \A i \in DOMAIN rs : rs[i].id <= m)

\* Host names the platform may record for a created registry
CreatedHostNames == {<<>>, S_dockerIo}

\* The Docker Hub block run again after it.
afterPublic_again == "ensurePublic"

\* Where run() goes after the Docker Hub block
afterPublic == "ensurePrivate"

\* Find or create a Docker Hub registry for public images
EnsurePublic ==
  /\ pc = "ensurePublic"
  /\ LET dockerHubRegistry == FindFirst(registryItems, isDockerHubRegistry) IN
     IF ~hasPublicImages(containers)
       THEN /\ pc' = afterPublic
            /\ UNCHANGED <<dockerHubRegistryId, inFlight, calls>>
     ELSE IF dockerHubRegistry # <<>>
       THEN /\ dockerHubRegistryId' = NumToString(dockerHubRegistry[1].id)
            /\ pc' = afterPublic
            /\ UNCHANGED <<inFlight, calls>>
       ELSE /\ Issue(PostRegistryPublic)
            /\ pc' = "createPublicWait"
            /\ UNCHANGED dockerHubRegistryId
  /\ UNCHANGED <<inp, run, appDetails, configVars, buildIdx, registries, apps, registryItems,
                 privateRegistryId, appPayload, appId, pollVars, resultVars, prev>>

\* POST /registries for Docker Hub answers
CreatePublicResp ==
  /\ pc = "createPublicWait"
  /\ Answered(PostRegistryPublic)
  /\ \E ok \in BOOLEAN, host \in CreatedHostNames :
       IF ok THEN /\ registries' = Append(registries,
                                     [id |-> nextRegistryId(registries),
                                      displayName |-> S_DockerHub,
                                      hostName |-> host])
                  /\ dockerHubRegistryId' = NumToString(nextRegistryId(registries))
                  /\ pc' = afterPublic
                  /\ UNCHANGED resultVars
             ELSE /\ host = <<>>
                  /\ Throw(ApiError(PostRegistryPublic))
                  /\ UNCHANGED <<registries, dockerHubRegistryId, outputs>>
  /\ UNCHANGED <<inp, run, appDetails, configVars, buildIdx, apps, registryItems,
                 privateRegistryId, appPayload, appId, pollVars, calls, prev>>

\* Where run() goes after the private-registry block
afterPrivate == "createApp"

\* Find or create a private registry for built images
EnsurePrivate ==
  /\ pc = "ensurePrivate"
  /\ LET existing == FindFirst(registryItems, LAMBDA r : isPrivateRegistry(r, inp)) IN
     IF ~wantsPrivateRegistry(containers, inp)
       THEN /\ pc' = afterPrivate
            /\ UNCHANGED <<privateRegistryId, inFlight, calls>>
     ELSE IF existing # <<>>
       THEN /\ privateRegistryId' = NumToString(existing[1].id)
            /\ pc' = afterPrivate
            /\ UNCHANGED <<inFlight, calls>>
     ELSE IF inp.ensureBunnyRegistry
       THEN /\ Issue(PostRegistryPrivate)
            /\ pc' = "createPrivateWait"
            /\ UNCHANGED privateRegistryId
       ELSE /\ pc' = afterPrivate
            /\ UNCHANGED <<privateRegistryId, inFlight, calls>>
  /\ UNCHANGED <<inp, run, appDetails, configVars, buildIdx, registries, apps, registryItems,
                 dockerHubRegistryId, appPayload, appId, pollVars, resultVars, prev>>

\* POST /registries for the private registry answers
CreatePrivateResp ==
  /\ pc = "createPrivateWait"
  /\ Answered(PostRegistryPrivate)
  /\ \E ok \in BOOLEAN, host \in CreatedHostNames :
       IF ok THEN /\ registries' = Append(registries,
                                     [id |-> nextRegistryId(registries),
                                      displayName |->
                                        OrElse(inp.bunnyRegistryName, inp.registryUsername),
                                      hostName |-> host])
                  /\ privateRegistryId' = NumToString(nextRegistryId(registries))
                  /\ pc' = afterPrivate
                  /\ UNCHANGED resultVars
             ELSE /\ host = <<>>
                  /\ Throw(ApiError(PostRegistryPrivate))
                  /\ UNCHANGED <<registries, privateRegistryId, outputs>>
  /\ UNCHANGED <<inp, run, appDetails, configVars, buildIdx, apps, registryItems,
                 dockerHubRegistryId, appPayload, appId, pollVars, calls, prev>>

\* The app payload is built and POST /apps is sent
CreateAppCall ==
  /\ pc = "createApp"
  /\ appPayload' = <<buildAppPayload(containers, appName, createEndpoint,
                                     privateRegistryId, dockerHubRegistryId, inp)>>
  /\ Issue(PostApps)
  /\ pc' = "createAppWait"
  /\ UNCHANGED <<inp, run, appDetails, configVars, buildIdx, registries, apps, registryVars,
                 appId, pollVars, resultVars, prev>>

\* POST /apps answers: appId, output app_id
CreateAppResp ==
  /\ pc = "createAppWait"
  /\ Answered(PostApps)
  /\ \E ok \in BOOLEAN :
       IF ok THEN /\ apps' = apps + 1
                  /\ appId' = apps + 1
                  /\ outputs' = [outputs EXCEPT !.app_id = <<apps + 1>>]
                  /\ pc' = "deploy"
                  /\ UNCHANGED <<failed, error>>
             ELSE /\ Throw(ApiError(PostApps))
                  /\ UNCHANGED <<apps, appId, outputs>>
  /\ UNCHANGED <<inp, run, appDetails, configVars, buildIdx, registries, registryVars,
                 appPayload, pollVars, calls, prev>>

\* POST /apps/{id}/deploy is sent
DeployCall ==
  /\ pc = "deploy"
  /\ Issue(PostDeploy)
  /\ pc' = "deployWait"
  /\ UNCHANGED <<inp, run, appDetails, configVars, buildIdx, registries, apps, registryVars,
                 appPayload, appId, pollVars, resultVars, prev>>

\* Date.now() + timeout * 1000 (NaN when the timeout input is not a number)
computeDeadline(t, timeout) ==
  IF timeout.nan THEN [nan |-> TRUE, v |-> 0]
  ELSE [nan |-> FALSE, v |-> t + timeout.v]

\* The loop condition admitting the deadline itself.
beforeDeadline_inclusive(t, d) == ~d.nan /\ t <= d.v

\* Date.now() < deadline
beforeDeadline(t, d) == ~d.nan /\ t < d.v

\* The deploy step polling whatever the flag says.
afterDeploy_alwaysPoll(i) == "poll"

\* Where run() goes after the deploy trigger
afterDeploy(i) == IF i.waitForDeploy THEN "poll" ELSE "endpoint"

\* POST /apps/{id}/deploy answers; with waiting enabled the deadline is set
DeployResp ==
  /\ pc = "deployWait"
  /\ Answered(PostDeploy)
  /\ \E ok \in BOOLEAN :
       IF ok THEN /\ pc' = afterDeploy(inp)
                  /\ deadline' = IF inp.waitForDeploy
                                   THEN computeDeadline(now, inp.timeout)
                                   ELSE deadline
                  /\ UNCHANGED resultVars
             ELSE /\ Throw(ApiError(PostDeploy))
                  /\ UNCHANGED <<deadline, outputs>>
  /\ UNCHANGED <<inp, run, appDetails, configVars, buildIdx, registries, apps, registryVars,
                 appPayload, appId, now, status, statuses, warning, calls, prev>>

\* Statuses the platform may report for an application ("" when the field is absent)
S_Deploying == <<"D","e","p","l","o","y","i","n","g">>
S_Running   == <<"R","u","n","n","i","n","g">>
Statuses    == {S_Deploying, S_Active, S_Running, <<>>}

\* while (Date.now() < deadline): GET /apps/{id} is sent
PollCall ==
  /\ pc = "poll"
  /\ beforeDeadline(now, deadline)
  /\ Issue(GetAppStatus)
  /\ pc' = "pollWait"
  /\ UNCHANGED <<inp, run, appDetails, configVars, buildIdx, registries, apps, registryVars,
                 appPayload, appId, pollVars, resultVars, prev>>

\* The loop without its break.
afterStatus_noBreak(st) == "sleep"

\* The loop waiting once more for the response it has already read.
afterStatus_awaitAgain(st) == IF isActive(st) THEN "afterLoop" ELSE "pollWait"

\* Where the loop goes after a status was read
afterStatus(st) == IF isActive(st) THEN "afterLoop" ELSE "sleep"

\* GET /apps/{id} answers inside the loop: status, break on success
PollResp ==
  /\ pc = "pollWait"
  /\ Answered(GetAppStatus)
  /\ \E ok \in BOOLEAN, st \in Statuses, d \in Latencies :
       /\ now' = now + d
       /\ IF ok THEN /\ status' = st
                     /\ statuses' = Append(statuses, st)
                     /\ pc' = afterStatus(st)
                     /\ UNCHANGED resultVars
                ELSE /\ st = <<>>
                     /\ Throw(ApiError(GetAppStatus))
                     /\ UNCHANGED <<status, statuses, outputs>>
  /\ UNCHANGED <<inp, run, appDetails, configVars, buildIdx, registries, apps, registryVars,
                 appPayload, appId, deadline, warning, calls, prev>>

\* await sleep(10_000)
Sleep ==
  /\ pc = "sleep"
  /\ now' = now + PollIntervalSec
  /\ pc' = "poll"
  /\ UNCHANGED <<inp, run, appDetails, configVars, buildIdx, registries, apps, registryVars,
                 appPayload, appId, deadline, status, statuses, warning, inFlight,
                 calls, resultVars, prev>>

\* The loop condition fails: the deadline has passed
PollExit ==
  /\ pc = "poll"
  /\ ~beforeDeadline(now, deadline)
  /\ pc' = "afterLoop"
  /\ UNCHANGED <<inp, run, appDetails, configVars, buildIdx, registries, apps, registryVars,
                 appPayload, appId, pollVars, inFlight, calls, resultVars, prev>>

\* if (status !== "Active") core.warning(...)
AfterLoop ==
  /\ pc = "afterLoop"
  /\ warning' = ~isActive(status)
  /\ pc' = "endpoint"
  /\ UNCHANGED <<inp, run, appDetails, configVars, buildIdx, registries, apps, registryVars,
                 appPayload, appId, now, deadline, status, statuses, inFlight, calls,
                 resultVars, prev>>

\* if (createEndpoint): GET /apps/{id} is sent for the endpoint URL
EndpointCall ==
  /\ pc = "endpoint"
  /\ createEndpoint
  /\ Issue(GetAppDetail)
  /\ pc' = "endpointWait"
  /\ UNCHANGED <<inp, run, appDetails, configVars, buildIdx, registries, apps, registryVars,
                 appPayload, appId, pollVars, resultVars, prev>>

\* Host names the platform may report for an endpoint
S_hostA   == <<"a",".","b","-","c","d","n",".","n","e","t">>
S_hostB   == <<"h","t","t","p",":","/","/","x",".","i","o">>
S_hostC   == <<"h","t","t","p","s",":","/","/","y",".","i","o">>
S_hostD   == <<"h","t","t","p","d",".","i","o">>
HostNames == {<<>>, S_hostA, S_hostB, S_hostC, S_hostD}

\* Application-detail responses the platform may give
DetailResponses ==
  {[displayEndpointAddress |-> a, containerTemplates |-> ts] :
     a \in {<<>>, S_hostC},
     ts \in {<<>>,
             <<[endpoints |-> <<>>]>>,
             <<[endpoints |-> <<[publicHost |-> S_hostA]>>]>>,
             <<[endpoints |-> <<[publicHost |-> S_hostD]>>]>>,
             <<[endpoints |-> <<>>], [endpoints |-> <<[publicHost |-> S_hostB]>>]>>,
             <<[endpoints |-> <<[publicHost |-> <<>>]>>],
               [endpoints |-> <<[publicHost |-> S_hostA]>>]>>,
             <<[endpoints |-> <<[publicHost |-> <<>>], [publicHost |-> S_hostB]>>]>>}}

\* GET /apps/{id} answers: hostname, outputs app_url and endpoint_hostname
EndpointResp ==
  /\ pc = "endpointWait"
  /\ Answered(GetAppDetail)
  /\ \E ok \in BOOLEAN, details \in DetailResponses :
       IF ok THEN /\ appDetails' = <<details>>
                  /\ outputs' = [outputs EXCEPT
                                   !.app_url = <<resolveAppUrl(resolveHostname(details))>>,
                                   !.endpoint_hostname = <<resolveHostname(details)>>]
                  /\ pc' = "done"
                  /\ UNCHANGED <<failed, error>>
             ELSE /\ details.displayEndpointAddress = <<>>
                  /\ details.containerTemplates = <<>>
                  /\ Throw(ApiError(GetAppDetail))
                  /\ UNCHANGED <<outputs, appDetails>>
  /\ UNCHANGED <<inp, run, configVars, buildIdx, registries, apps, registryVars,
                 appPayload, appId, pollVars, calls, prev>>

\* Endpoint creation is off: run() ends without the detail fetch
Finish ==
  /\ pc = "endpoint"
  /\ ~createEndpoint
  /\ pc' = "done"
  /\ UNCHANGED <<inp, run, appDetails, configVars, buildIdx, registries, apps, registryVars,
                 appPayload, appId, pollVars, inFlight, calls, resultVars, prev>>

\* The action is run again with the same inputs against the same account
Rerun ==
  /\ pc = "done"
  /\ run < MaxRuns
  /\ run' = run + 1
  /\ prev' = [completed |-> ~failed,
              dockerHubRegistryId |-> dockerHubRegistryId,
              privateRegistryId |-> privateRegistryId]
  /\ FreshRunNext
  /\ UNCHANGED <<inp, registries, apps>>

Next ==
  \/ LoadConfig
  \/ DockerLogin
  \/ DockerBuild
  \/ DockerPush
  \/ ListRegistriesCall
  \/ ListRegistriesResp
  \/ EnsurePublic
  \/ CreatePublicResp
  \/ EnsurePrivate
  \/ CreatePrivateResp
  \/ CreateAppCall
  \/ CreateAppResp
  \/ DeployCall
  \/ DeployResp
  \/ PollCall
  \/ PollResp
  \/ Sleep
  \/ PollExit
  \/ AfterLoop
  \/ EndpointCall
  \/ EndpointResp
  \/ Finish
  \/ Rerun

\* ------------------------------------------------------------------ inputs

S_api     == <<"a","p","i">>
S_redis   == <<"r","e","d","i","s">>
S_shop    == <<"s","h","o","p">>
S_sha     == <<"a","b","c","1">>
S_reg     == <<"g","h","c","r",".","i","o","/","o","r","g">>
S_org     == <<"o","r","g">>
S_Org     == <<"O","r","g">>
S_ghcr    == <<"g","h","c","r">>
S_GHCR    == <<"G","H","C","R">>
S_ghcrIo  == <<"g","h","c","r",".","i","o">>
S_dockerhub == <<"d","o","c","k","e","r"," ","h","u","b">>
S_pw      == <<"p","w">>
S_DE      == <<"D","E">>

\* A raw container entry with the optional fields left out
Raw(name, image, build, port) ==
  [name |-> name, image |-> image, tag |-> <<>>, build |-> build, port |-> port,
   context |-> <<>>, dockerfile |-> <<>>, env |-> <<>>, endpoints |-> <<>>]

RawApi   == Raw(S_api, S_api, TRUE, 8080)
RawRedis == Raw(S_redis, S_redis, FALSE, 0)

\* An inline `containers` input that parses to the list items
Inline(items) == [present |-> TRUE, isList |-> TRUE, items |-> items]
NoInline      == [present |-> FALSE, isList |-> FALSE, items |-> <<>>]

\* deployment_timeout as parseInt reads it
Timeout(v) == [nan |-> FALSE, v |-> v]
TimeoutNaN == [nan |-> TRUE, v |-> 0]

Timeouts ==
  {TimeoutNaN, Timeout(0 - PollIntervalSec)}
    \cup {Timeout(k * PollIntervalSec) : k \in 0..MaxTimeoutTicks}

\* The inputs every explored run starts from; the sets below vary them.
BaseInput ==
  [hasToml             |-> FALSE,
   toml                |-> [name |-> <<>>, containers |-> <<>>],
   containersInput     |-> Inline(<<RawApi, RawRedis>>),
   appName             |-> S_shop,
   registry            |-> S_reg,
   sha                 |-> S_sha,
   registryUsername    |-> S_org,
   registryPassword    |-> S_pw,
   bunnyRegistryName   |-> <<>>,
   ensureBunnyRegistry |-> TRUE,
   createEndpointInput |-> TRUE,
   endpointContainer   |-> <<>>,
   endpointName        |-> <<>>,
   endpointType        |-> <<>>,
   deploymentType      |-> S_single,
   region              |-> S_DE,
   waitForDeploy       |-> FALSE,
   timeout             |-> Timeout(0)]

\* Inputs that vary the deploy step: every timeout with and without waiting,
\* and a wait followed by the endpoint fetch
DeployInputs ==
  {[BaseInput EXCEPT !.waitForDeploy = w, !.timeout = t, !.createEndpointInput = FALSE] :
     w \in BOOLEAN, t \in Timeouts}
    \cup {[BaseInput EXCEPT !.waitForDeploy = TRUE,
                            !.timeout = Timeout(2 * PollIntervalSec)]}

\* Inputs that vary registry provisioning
RegistryInputs ==
  {[BaseInput EXCEPT !.containersInput = Inline(cs),
                     !.createEndpointInput = FALSE,
                     !.bunnyRegistryName = n,
                     !.registryUsername = u,
                     !.registryPassword = u,
                     !.ensureBunnyRegistry = e] :
     cs \in {<<RawApi, RawRedis>>, <<RawApi>>, <<RawRedis>>},
     n \in {<<>>, S_ghcr, S_DockerHub},
     u \in {<<>>, S_org},
     e \in BOOLEAN}

\* Inputs that vary the config source
ConfigInputs ==
  {[BaseInput EXCEPT !.hasToml = h,
                     !.toml = [name |-> S_shop,
                               containers |-> <<Raw(S_api, <<>>, TRUE, 8080), RawRedis>>],
                     !.containersInput = ci,
                     !.appName = a,
                     !.createEndpointInput = e] :
     h \in BOOLEAN,
     e \in BOOLEAN,
     ci \in {NoInline, Inline(<<>>), Inline(<<RawRedis>>),
             Inline(<<Raw(<<>>, S_redis, FALSE, 0)>>)},
     a \in {<<>>, S_shop}}

Registry(id, displayName, hostName) ==
  [id |-> id, displayName |-> displayName, hostName |-> hostName]

\* Registry lists the account may hold before the first run
InitialRegistries ==
  {<<>>,
   <<Registry(1, S_DockerHub, S_dockerIo)>>,
   <<Registry(3, S_GHCR, S_ghcrIo), Registry(4, S_ghcr, S_ghcrIo)>>,
   <<Registry(2, S_Org, <<>>), Registry(5, S_dockerhub, <<>>)>>}

Init ==
  /\ \/ inp \in DeployInputs /\ registries = <<>>
     \/ inp \in RegistryInputs /\ registries \in InitialRegistries
     \/ inp \in ConfigInputs /\ registries = <<>>
  /\ run = 1
  /\ apps = 0
  /\ prev = NoPrev
  /\ FreshRun

Spec == Init /\ [][Next]_vars

\* ------------------------------------------------------------------ config inputs

S_foo     == <<"f","o","o">>
S_v1      == <<"v","1">>
S_orgApi  == <<"o","r","g","/","a","p","i">>

\* Number of well-formed containers declared around the varied one
MaxFill == 1

\* The j-th well-formed container: a public image that is not built
FillerName(j) == S_redis \o NumToString(j)
Filler(j)     == Raw(FillerName(j), S_redis, FALSE, 0)
Fillers       == [j \in 1..MaxFill |-> Filler(j)]

\* Raw container entries: name absent, fresh or already taken; image absent,
\* bare or namespaced; tag absent or declared; built or not
Candidates ==
  {[Raw(n, im, b, 0) EXCEPT !.tag = t] :
     n \in {<<>>, S_api, FillerName(1)},
     im \in {<<>>, S_api, S_orgApi},
     t \in {<<>>, S_v1},
     b \in BOOLEAN}

\* Container lists: empty, or one candidate at any position among the fillers
ContainerLists ==
  {<<>>} \cup
  {SubSeq(Fillers, 1, k) \o <<c>> \o SubSeq(Fillers, k + 1, m) :
     c \in Candidates, m \in 0..MaxFill, k \in 0..MaxFill}

\* An inline `containers` input that does not parse to a list
NotAList == [present |-> TRUE, isList |-> FALSE, items |-> <<>>]

\* A run that builds nothing else, provisions nothing and does not wait
ConfigBase ==
  [BaseInput EXCEPT !.registryPassword = <<>>,
                    !.ensureBunnyRegistry = FALSE,
                    !.createEndpointInput = FALSE]

\* Runs configured by a descriptor file, with and without an inline list
FileInputs ==
  {[ConfigBase EXCEPT !.hasToml = TRUE,
                      !.toml = [name |-> tn, containers |-> l],
                      !.containersInput = ci,
                      !.appName = a,
                      !.sha = s] :
     tn \in {<<>>, S_shop},
     l \in ContainerLists,
     ci \in {NoInline, Inline(<<RawApi>>)},
     a \in {<<>>, S_foo},
     s \in {<<>>, S_sha}}

\* Runs configured by the inline list, or by nothing
InlineInputs ==
  {[ConfigBase EXCEPT !.containersInput = ci,
                      !.appName = a,
                      !.sha = s] :
     ci \in {NoInline, NotAList} \cup {Inline(l) : l \in ContainerLists},
     a \in {<<>>, S_foo},
     s \in {<<>>, S_sha}}

\* Runs that provision both registries, wait for the deployment and fetch
\* the endpoint, and one that skips the fetch
FullRunInputs ==
  {[BaseInput EXCEPT !.waitForDeploy = TRUE,
                     !.timeout = Timeout(PollIntervalSec),
                     !.createEndpointInput = e] : e \in BOOLEAN}

InitConfig ==
  /\ \/ inp \in FileInputs \cup InlineInputs
        /\ registries = <<Registry(1, S_DockerHub, S_dockerIo)>>
     \/ inp \in FullRunInputs /\ registries = <<>>
  /\ run = 1
  /\ apps = 0
  /\ prev = NoPrev
  /\ FreshRun

\* The runs of the action over the config inputs
SpecConfig == InitConfig /\ [][Next]_vars

\* ------------------------------------------------------------------ image inputs

\* Longest image reference declared
MaxImageLen == 4

\* The characters image references are made of: a letter and the three
\* characters parseImageParts looks for
ImageChars == {"a", ".", ":", "/"}

ImageStrings == UNION {[1..n -> ImageChars] : n \in 1..MaxImageLen}

\* Runs that deploy one public image under each reference
ImageInputs ==
  {[ConfigBase EXCEPT !.containersInput = Inline(<<Raw(S_api, im, FALSE, 0)>>)] :
     im \in ImageStrings}

InitImage ==
  /\ \/ inp \in ImageInputs /\ registries = <<Registry(1, S_DockerHub, S_dockerIo)>>
     \/ inp \in FullRunInputs /\ registries = <<>>
  /\ run = 1
  /\ apps = 0
  /\ prev = NoPrev
  /\ FreshRun

\* The runs of the action over the image references
SpecImage == InitImage /\ [][Next]_vars

\* ------------------------------------------------------------------ endpoint inputs

S_web     == <<"w","e","b">>
S_tcp     == <<"t","c","p">>
S_edge    == <<"e","d","g","e">>

\* A port mapping and an endpoint declaration of bunny.toml; an absent port
\* is 0, an absent name or type <<>>
PortDecl(container, exposed) == [container |-> container, exposed |-> exposed]
EndpointDecl(name, type, ports) == [name |-> name, type |-> type, ports |-> ports]

\* Port-mapping lists an endpoint may declare
PortLists ==
  {<<>>, <<PortDecl(0, 0)>>, <<PortDecl(8080, 443), PortDecl(9090, 0)>>}

\* Endpoint types as written in the file or given as endpoint_type
EndpointTypes == {<<>>, S_CDN, S_anycast, S_tcp}

\* Endpoint lists a container may declare
EndpointLists ==
  {<<>>}
    \cup {<<EndpointDecl(<<>>, t, ps)>> : t \in EndpointTypes, ps \in PortLists}
    \cup {<<EndpointDecl(S_edge, S_anycast, ps), EndpointDecl(<<>>, S_cdn, <<PortDecl(0, 0)>>)>> :
            ps \in PortLists}

\* A public container with the port and endpoints given
Exposed(name, port, eps) ==
  [Raw(name, S_redis, FALSE, port) EXCEPT !.endpoints = eps]

\* Container lists of a descriptor file: a container with any endpoint list,
\* alone or next to a second container
FileEndpointLists ==
  LET First  == {Exposed(S_api, p, eps) : p \in {0, 8080}, eps \in EndpointLists}
      Second == {Exposed(S_web, 0, <<>>), Exposed(S_web, 9090, <<>>),
                 Exposed(S_web, 9090, <<EndpointDecl(<<>>, <<>>, <<PortDecl(9090, 0)>>)>>)}
  IN  {<<c>> : c \in First}
        \cup {<<c, d>> : c \in First, d \in Second}
        \cup {<<d, c>> : c \in First, d \in Second}

\* Container lists of the inline input: one or two containers named api or
\* web, with or without a port
InlineEndpointLists ==
  LET Each == {Exposed(n, p, <<>>) : n \in {S_api, S_web}, p \in {0, 8080}}
  IN  {<<c>> : c \in Each} \cup {<<c, d>> : c \in Each, d \in Each}

\* A run that builds and provisions nothing and does not wait
EndpointBase ==
  [ConfigBase EXCEPT !.appName = S_shop]

\* Runs that vary what decides the endpoints of the app
EndpointInputs ==
  {[EndpointBase EXCEPT !.hasToml = TRUE,
                        !.toml = [name |-> S_shop, containers |-> l],
                        !.containersInput = NoInline,
                        !.createEndpointInput = e,
                        !.endpointContainer = ec] :
     l \in FileEndpointLists, e \in BOOLEAN, ec \in {<<>>, S_web}}
  \cup
  {[EndpointBase EXCEPT !.containersInput = Inline(l),
                        !.createEndpointInput = e,
                        !.endpointContainer = ec,
                        !.endpointType = t] :
     l \in InlineEndpointLists, e \in BOOLEAN, ec \in {<<>>, S_web, S_redis},
     t \in {<<>>, S_anycast, S_tcp}}

InitEndpoint ==
  /\ \/ inp \in EndpointInputs /\ registries = <<Registry(1, S_DockerHub, S_dockerIo)>>
     \/ inp \in FullRunInputs /\ registries = <<>>
  /\ run = 1
  /\ apps = 0
  /\ prev = NoPrev
  /\ FreshRun

\* The runs of the action over the endpoint inputs
SpecEndpoint == InitEndpoint /\ [][Next]_vars

\* ------------------------------------------------------------------ polling inputs

\* Longest deployment timeout of the polling runs, in poll intervals
MaxPollTicks == 2

\* Timeouts of the polling runs: not a number, negative, zero, whole poll
\* intervals and a timeout ending inside an interval
PollTimeouts ==
  {TimeoutNaN, Timeout(0 - PollIntervalSec), Timeout(PollIntervalSec + MaxLatencySec)}
    \cup {Timeout(k * PollIntervalSec) : k \in 0..MaxPollTicks}

\* Runs that wait for the deployment under every timeout, and one that
\* fetches the endpoint after the wait
PollInputs ==
  {[BaseInput EXCEPT !.waitForDeploy = TRUE,
                     !.timeout = t,
                     !.createEndpointInput = FALSE] : t \in PollTimeouts}
    \cup {[BaseInput EXCEPT !.waitForDeploy = TRUE, !.timeout = Timeout(0)]}

InitPoll ==
  /\ inp \in PollInputs
  /\ registries = <<>>
  /\ run = 1
  /\ apps = 0
  /\ prev = NoPrev
  /\ FreshRun

\* A step of the deploy stage: an awaited call returns, the sleep timer
\* fires, the straight-line code between them runs on
DeployStep ==
  DeployResp \/ PollCall \/ PollResp \/ Sleep \/ PollExit \/ AfterLoop

\* The runs that wait for the deployment, none of them suspended for ever
\* inside the deploy stage
SpecPoll == InitPoll /\ [][Next]_vars /\ WF_vars(DeployStep)

\* ------------------------------------------------------------------ properties

\* Number of entries of the log equal to call
Count(log, call) == Cardinality({i \in DOMAIN log : log[i] = call})

Called(call) == \E i \in DOMAIN calls : calls[i] = call

\* Number of status polls the polling loop of this run has issued
PollCount == Count(calls, GetAppStatus)

\* The terminal-success tokens of the design: "active" or "running" in any case
S_active  == <<"a","c","t","i","v","e">>
S_running == <<"r","u","n","n","i","n","g">>
SuccessToken(st) == ToLowerCase(st) \in {S_active, S_running}

\* The deployment state of the current run: Created once POST /apps returned
\* an id, Deploying once the deploy trigger was issued, Active once the loop
\* read a status it takes for success, TimedOut once the warning was raised.
DeployState ==
  IF appId = 0 THEN "None"
  ELSE IF ~Called(PostDeploy) THEN "Created"
  ELSE IF warning THEN "TimedOut"
  ELSE IF statuses # <<>> /\ isActive(status) THEN "Active"
  ELSE "Deploying"

\* C1: with waiting enabled, when three successive status fetches returned
\* "Deploying", "Deploying", "Active", exactly three polls were issued, the
\* run is Active, no fourth status is ever fetched and no warning is raised.
C1_ThreePollsToActive ==
  (inp.waitForDeploy
     /\ Len(statuses) >= 3
     /\ SubSeq(statuses, 1, 3) = <<S_Deploying, S_Deploying, S_Active>>)
  => /\ Len(statuses) = 3
     /\ PollCount = 3
     /\ DeployState = "Active"
     /\ pc \notin {"poll", "pollWait", "sleep"}
     /\ ~warning

C1_Witness ==
  /\ statuses = <<S_Deploying, S_Deploying, S_Active>>
  /\ pc = "done"
  /\ ~failed

\* C2: a fetched status that is "active" or "running" in any letter case ends
\* the loop (it is the last status fetched, the loop neither sleeps nor polls
\* again, no warning is raised); any other status leaves the run progressing.
C2_CaseInsensitiveSuccess ==
  (inp.waitForDeploy /\ statuses # <<>>)
  => /\ \A i \in 1..(Len(statuses) - 1) : ~SuccessToken(statuses[i])
     /\ IF SuccessToken(statuses[Len(statuses)])
          THEN pc \notin {"poll", "pollWait", "sleep"} /\ ~warning
          ELSE DeployState # "Active"

\* C3: when the polling loop is left and no poll returned a success status,
\* the warning is raised, the run is not marked failed, the application id
\* output is kept and the run goes on to the endpoint-resolution stage.
C3_TimeoutIsWarning ==
  [][(pc = "afterLoop" /\ \A i \in DOMAIN statuses : ~SuccessToken(statuses[i]))
       => /\ pc' = "endpoint"
          /\ warning'
          /\ DeployState' = "TimedOut"
          /\ ~failed'
          /\ appId # 0
          /\ outputs'.app_id = <<appId>>]_vars

C3_Witness ==
  /\ pc = "endpoint"
  /\ warning
  /\ statuses # <<>>
  /\ ~failed
  /\ outputs.app_id = <<appId>>

\* C4: with the wait flag off no status poll is issued and no warning is
\* raised, whatever the timeout is.
C4_NoWaitNoPoll ==
  ~inp.waitForDeploy => (PollCount = 0 /\ ~warning /\ statuses = <<>>)

C4_Witness ==
  /\ ~inp.waitForDeploy
  /\ ~inp.timeout.nan
  /\ inp.timeout.v > 0
  /\ Called(PostDeploy)
  /\ pc = "done"
  /\ ~failed

\* C5: within a run the deployment state changes only None -> Created ->
\* Deploying -> Active or TimedOut; Deploying is entered with an application
\* id obtained; Active and TimedOut are left only by a new run, and no
\* deploy trigger and no status poll is issued in them.
C5_StateMachine ==
  [][IF run' # run
       THEN DeployState' = "None"
       ELSE /\ DeployState' # DeployState
               => <<DeployState, DeployState'>> \in
                    {<<"None", "Created">>, <<"Created", "Deploying">>,
                     <<"Deploying", "Active">>, <<"Deploying", "TimedOut">>}
            /\ DeployState' = "Deploying" => (appId # 0 /\ outputs.app_id = <<appId>>)
            /\ DeployState \in {"Active", "TimedOut"}
               => /\ DeployState' = DeployState
                  /\ Count(calls', PostDeploy) = Count(calls, PostDeploy)
                  /\ Count(calls', GetAppStatus) = Count(calls, GetAppStatus)]_vars

C5_Witness ==
  /\ DeployState = "Active"
  /\ pc = "done"
  /\ Len(statuses) > 1

\* Positions of run() after the registry stage
AfterRegistryStage ==
  {"createApp", "createAppWait", "deploy", "deployWait", "poll", "pollWait",
   "sleep", "afterLoop", "endpoint", "endpointWait"}

\* C6: a second run with the same inputs, after a first run that completed,
\* issues no registry create call and resolves the identifiers the first run
\* resolved.
C6_IdempotentAcrossRuns ==
  (run > 1 /\ prev.completed /\ pc \in AfterRegistryStage)
  => /\ ~Called(PostRegistryPublic)
     /\ ~Called(PostRegistryPrivate)
     /\ dockerHubRegistryId = prev.dockerHubRegistryId
     /\ privateRegistryId = prev.privateRegistryId

\* The requested private-registry name and the entries of a list matching it
RequestedName == OrElse(inp.bunnyRegistryName, inp.registryUsername)
NameMatches(items) ==
  {i \in DOMAIN items : ToLowerCase(items[i].displayName) = ToLowerCase(RequestedName)}

\* A private registry is looked up: some container is built and a name or
\* the provisioning flag is given
PrivateLookedUp ==
  /\ \E i \in DOMAIN containers : containers[i].build
  /\ (inp.bunnyRegistryName # <<>> \/ inp.ensureBunnyRegistry)

\* C7: when a private registry is looked up and the fetched list holds an
\* entry whose display name equals the requested name case-insensitively, no
\* create call for the private registry is issued and the private identifier
\* is the id of the first such entry, with provisioning enabled or not.
C7_ExistingPrivateReused ==
  (pc \in AfterRegistryStage /\ PrivateLookedUp /\ NameMatches(registryItems) # {})
  => /\ ~Called(PostRegistryPrivate)
     /\ \E i \in NameMatches(registryItems) :
          /\ \A j \in NameMatches(registryItems) : i <= j
          /\ privateRegistryId = NumToString(registryItems[i].id)

C7_Witness ==
  /\ pc = "createApp"
  /\ PrivateLookedUp
  /\ ~inp.ensureBunnyRegistry
  /\ \E i \in NameMatches(registryItems) :
       registryItems[i].displayName # RequestedName
  /\ privateRegistryId # <<>>

\* C8: a run issues at most one registry list call, at most one create call
\* for the public registry and at most one for the private registry.
C8_RegistryCallBudget ==
  /\ Count(calls, GetRegistries) <= 1
  /\ Count(calls, PostRegistryPublic) <= 1
  /\ Count(calls, PostRegistryPrivate) <= 1

C8_Witness ==
  /\ Count(calls, GetRegistries) = 1
  /\ Count(calls, PostRegistryPublic) = 1
  /\ Count(calls, PostRegistryPrivate) = 1
  /\ pc = "createApp"

PlatformCalls ==
  {GetRegistries, PostRegistryPublic, PostRegistryPrivate, PostApps, PostDeploy,
   GetAppStatus, GetAppDetail}

\* C9: once a platform call failed the run is marked failed and has ended,
\* the failed call is the last invocation of the run, nothing is in flight,
\* no app-creation call follows a failed registry call, and no platform call
\* of any run is a DELETE.
C9_FailFast ==
  /\ \A i \in DOMAIN calls : calls[i].method \in {"exec", "GET", "POST"}
  /\ (error # <<>> /\ error[1].kind = "PlatformError")
     => /\ failed
        /\ pc = "done"
        /\ inFlight = {}
        /\ calls # <<>>
        /\ calls[Len(calls)] \in PlatformCalls
        /\ calls[Len(calls)].step = error[1].what
        /\ error[1].what \in {GetRegistries.step, PostRegistryPublic.step,
                              PostRegistryPrivate.step}
           => ~Called(PostApps)

C9_Witness ==
  /\ failed
  /\ pc = "done"
  /\ error[1].kind = "PlatformError"
  /\ error[1].what = PostRegistryPrivate.step
  /\ Called(PostRegistryPublic)

\* Rank of an external invocation in the order of the stages
StageRank(call) ==
  CASE call \in {ExecLogin, ExecBuild, ExecPush} -> 1
    [] call = GetRegistries -> 2
    [] call \in {PostRegistryPublic, PostRegistryPrivate} -> 3
    [] call = PostApps -> 4
    [] call = PostDeploy -> 5
    [] call = GetAppStatus -> 6
    [] call = GetAppDetail -> 7

\* The invocations of a run are in stage order, each stage after the
\* previous one was done: builds after the config, the list call after a
\* build and a push per build container, the app after the list, the deploy
\* trigger after the app id, polls and the detail fetch after the trigger.
StagesInOrder ==
  /\ \A i, j \in DOMAIN calls : i < j => StageRank(calls[i]) <= StageRank(calls[j])
  /\ calls # <<>> => (appName # <<>> /\ loadConfig(inp).ok)
  /\ Called(GetRegistries)
     => /\ Count(calls, ExecBuild) = Cardinality({i \in DOMAIN containers : containers[i].build})
        /\ Count(calls, ExecPush) = Count(calls, ExecBuild)
  /\ (Called(PostRegistryPublic) \/ Called(PostRegistryPrivate) \/ Called(PostApps))
     => Called(GetRegistries)
  /\ Called(PostDeploy) => (Called(PostApps) /\ appId # 0)
  /\ (Called(GetAppStatus) \/ Called(GetAppDetail)) => Called(PostDeploy)
  /\ Cardinality(inFlight) <= 1

\* C10: the stages of a run happen in order, an invocation is issued only
\* while the run has not failed and no platform call is in flight, and at
\* most one platform call is in flight at any time.
C10_SequentialStages ==
  /\ []StagesInOrder
  /\ [][(run' = run /\ calls' # calls)
          => (~failed /\ inFlight = {} /\ Len(calls') = Len(calls) + 1)]_vars

C10_Witness ==
  /\ pc = "done"
  /\ ~failed
  /\ Called(ExecLogin)
  /\ Called(PostRegistryPublic)
  /\ Called(PostRegistryPrivate)
  /\ PollCount > 1
  /\ Called(GetAppDetail)

\* ------------------------------------------------------------------ C11

\* The run was ended by the config stage
ConfigFailed ==
  failed /\ error # <<>> /\ error[1].kind = "ConfigError"

\* The run ended failed with nothing invoked: no docker command, no platform call
EndedBeforeAnyCall ==
  pc = "done" /\ failed /\ calls = <<>> /\ inFlight = {}

\* The run resolved the container list that config loading yields for input i
ResolvedAsFor(i) ==
  LET r == loadConfig(i) IN
  IF r.ok THEN ~ConfigFailed /\ containers = r.val.containers
          ELSE ConfigFailed /\ error = <<r.err>>

\* What the other source may hold
OtherInline ==
  {NoInline, NotAList, Inline(<<>>), Inline(<<RawApi>>), Inline(<<RawRedis, RawApi>>),
   Inline(<<Raw(<<>>, <<>>, FALSE, 0)>>)}
OtherToml ==
  {[name |-> <<>>, containers |-> <<>>],
   [name |-> S_shop, containers |-> <<RawApi>>],
   [name |-> S_shop, containers |-> <<Raw(<<>>, <<>>, FALSE, 0)>>]}

\* C11: when the descriptor file exists the container list of the run is the
\* one computed from the file, whatever the inline list holds; with no file
\* and an inline list it is the one computed from the inline list, whatever a
\* file would have held; with neither the run ends failed before any docker
\* command or platform call.
C11_SourcePrecedence ==
  pc # "start" =>
    /\ inp.hasToml =>
         \A ci \in OtherInline : ResolvedAsFor([inp EXCEPT !.containersInput = ci])
    /\ (~inp.hasToml /\ inp.containersInput.present) =>
         \A t \in OtherToml : ResolvedAsFor([inp EXCEPT !.toml = t])
    /\ (~inp.hasToml /\ ~inp.containersInput.present) =>
         ConfigFailed /\ EndedBeforeAnyCall

\* A run with both sources present went on with the containers of the file,
\* which are not those of the inline list.
C11_Witness ==
  /\ inp.hasToml
  /\ inp.containersInput.present
  /\ ~failed
  /\ Called(PostApps)
  /\ containers # <<>>
  /\ LET r == loadConfig([inp EXCEPT !.hasToml = FALSE])
     IN  r.ok /\ r.val.containers # containers

\* ------------------------------------------------------------------ C12

\* The raw container entries of the source the run reads
ChosenItems ==
  IF inp.hasToml THEN inp.toml.containers
  ELSE IF inp.containersInput.present /\ inp.containersInput.isList
    THEN inp.containersInput.items
  ELSE <<>>

\* The entry declares no name
OmitsName(c) == c.name = <<>>

\* The entry declares no image and is not built, so that none is inferred
NoImage(c) == c.image = <<>> /\ ~c.build

\* C12: when any container of the chosen source omits its name, or resolves
\* to an empty image, the run ends failed with a config error before any
\* docker command and any platform call.
C12_MissingNameOrImage ==
  (pc # "start" /\ \E i \in DOMAIN ChosenItems :
                      OmitsName(ChosenItems[i]) \/ NoImage(ChosenItems[i]))
    => ConfigFailed /\ EndedBeforeAnyCall

\* The second entry of an inline list has no name; the first one is well
\* formed, and the run ended with the config error of the second.
C12_Witness ==
  /\ ~inp.hasToml
  /\ Len(ChosenItems) = 2
  /\ ~OmitsName(ChosenItems[1]) /\ ~NoImage(ChosenItems[1])
  /\ OmitsName(ChosenItems[2])
  /\ ConfigFailed /\ EndedBeforeAnyCall
  /\ error[1].what = "missing name"

\* ------------------------------------------------------------------ C13

\* No two entries of the list carry the same name
DistinctNames(cs) ==
  \A i, j \in DOMAIN cs : cs[i].name = cs[j].name => i = j

\* C13: every container list that reaches the build, registry or descriptor
\* stage has pairwise distinct names, and a source with a duplicate name ends
\* the run with a config error before any call.
C13_DistinctContainerNames ==
  /\ calls # <<>> => DistinctNames(containers)
  /\ (pc # "start" /\ ~DistinctNames(ChosenItems)) => ConfigFailed /\ EndedBeforeAnyCall

\* ------------------------------------------------------------------ C14

\* The entry is built and declares no image
InfersImage(c) == c.build /\ c.image = <<>>

\* C14: a container with build=true and no declared image resolves to the
\* image <defaultRegistry>/<appName>, appName being the application name of
\* the run, also when that name comes from the app_name input and not from
\* the descriptor file.
C14_InferredImage ==
  pc # "start" =>
    \A i \in DOMAIN ChosenItems :
      (InfersImage(ChosenItems[i]) /\ ~OmitsName(ChosenItems[i])) =>
        /\ ~(ConfigFailed /\ error[1].what = "missing image" /\ error[1].at = i)
        /\ ~ConfigFailed => containers[i].image = inp.registry \o <<"/">> \o appName

\* ------------------------------------------------------------------ C15

\* The config stage passed: containers holds one resolved entry per raw entry
ConfigLoaded == pc # "start" /\ ~ConfigFailed

\* The default build id of the run: the commit id of the workflow, "latest"
\* when the environment gives none
DefaultBuildId == IF inp.sha # <<>> THEN inp.sha ELSE S_latest

\* C15: after resolution a container with no declared tag has the tag
\* "latest" when it is not built and the default build id of the run when it
\* is built; a declared non-empty tag is kept; no resolved tag is empty.
C15_ResolvedTag ==
  ConfigLoaded =>
    \A i \in DOMAIN containers :
      LET raw == ChosenItems[i] IN
      /\ (raw.tag = <<>> /\ ~raw.build) => containers[i].tag = S_latest
      /\ (raw.tag = <<>> /\ raw.build) => containers[i].tag = DefaultBuildId
      /\ raw.tag # <<>> => containers[i].tag = raw.tag
      /\ containers[i].tag # <<>>

\* A descriptor file with a built container without tag, resolved to the
\* commit id, next to a container that is not built and got "latest".
C15_Witness ==
  /\ ConfigLoaded
  /\ inp.hasToml
  /\ inp.sha # <<>>
  /\ Len(containers) = 2
  /\ ChosenItems[1].tag = <<>> /\ ChosenItems[1].build
  /\ containers[1].tag = inp.sha
  /\ ChosenItems[2].tag = <<>> /\ ~ChosenItems[2].build
  /\ containers[2].tag = S_latest
  /\ Called(PostApps)

\* ------------------------------------------------------------------ C16

\* The string holds a "/"
HasSlash(s) == \E k \in DOMAIN s : s[k] = "/"

\* C16: after resolution a built container whose declared image has no "/"
\* has the image <defaultRegistry>/<image>; a declared image with a "/" is
\* kept as declared; the image of a container that is not built is never
\* rewritten.
C16_RegistryPrefix ==
  ConfigLoaded =>
    \A i \in DOMAIN containers :
      LET raw == ChosenItems[i] IN
      /\ (raw.build /\ raw.image # <<>> /\ ~HasSlash(raw.image))
           => containers[i].image = inp.registry \o <<"/">> \o raw.image
      /\ HasSlash(raw.image) => containers[i].image = raw.image
      /\ ~raw.build => containers[i].image = raw.image

\* An inline list with a built container declared as "api", resolved under
\* the default registry, next to an unbuilt "redis" left as declared; the
\* image was built.
C16_Witness ==
  /\ ConfigLoaded
  /\ ~inp.hasToml
  /\ Len(containers) = 2
  /\ ChosenItems[1].build /\ ChosenItems[1].image = S_api
  /\ containers[1].image = S_reg \o <<"/">> \o S_api
  /\ ~ChosenItems[2].build /\ containers[2].image = S_redis
  /\ Called(ExecBuild)

\* ------------------------------------------------------------------ C17

\* The container template of the i-th container in the body of POST /apps
Template(i) == appPayload[1].containerTemplates[i]

\* C17: every non-empty image reference without "/" is deployed with the
\* namespace "library" and the whole reference as image name, also when it
\* holds a "." or a ":".
C17_BareImage ==
  appPayload # <<>> =>
    \A i \in DOMAIN containers :
      (containers[i].image # <<>> /\ ~HasSlash(containers[i].image)) =>
        /\ Template(i).imageNamespace = S_library
        /\ Template(i).imageName = containers[i].image

\* The reference "a:.a", one segment with a ":" and a ".", was sent to the
\* platform as library / a:.a.
C17_Witness ==
  /\ Called(PostApps)
  /\ appPayload # <<>>
  /\ containers[1].image = <<"a", ":", ".", "a">>
  /\ Template(1).imageNamespace = S_library
  /\ Template(1).imageName = <<"a", ":", ".", "a">>

\* ------------------------------------------------------------------ C18

\* The segments of a reference between its "/" characters
RECURSIVE Segments(_)
Segments(s) ==
  IF ~HasSlash(s) THEN <<s>>
  ELSE LET k == CHOOSE i \in DOMAIN s : s[i] = "/" /\ \A j \in 1..(i - 1) : s[j] # "/"
       IN  <<SubSeq(s, 1, k - 1)>> \o Segments(SubSeq(s, k + 1, Len(s)))

\* The segment looks like a registry host
LooksLikeHost(seg) == \E k \in DOMAIN seg : seg[k] \in {".", ":"}

\* The segments left once a leading registry host is dropped
Remaining(s) ==
  IF LooksLikeHost(Segments(s)[1]) THEN Tail(Segments(s)) ELSE Segments(s)

\* All remaining segments but the last
Others(s) == SubSeq(Remaining(s), 1, Len(Remaining(s)) - 1)

\* The segments written with "/" between them
RECURSIVE Joined(_)
Joined(segs) ==
  IF segs = <<>> THEN <<>>
  ELSE IF Len(segs) = 1 THEN segs[1]
  ELSE segs[1] \o <<"/">> \o Joined(Tail(segs))

\* C18 as stated: for a reference of two or more segments the first segment
\* is dropped exactly when it holds a "." or a ":", the last remaining segment
\* is the name, the other remaining segments joined with "/" are the
\* namespace, "library" when none remain; the namespace is never empty.
C18_AsStated ==
  appPayload # <<>> =>
    \A i \in DOMAIN containers :
      LET s == containers[i].image IN
      Len(Segments(s)) >= 2 =>
        /\ Template(i).imageName = Remaining(s)[Len(Remaining(s))]
        /\ Template(i).imageNamespace =
             (IF Others(s) = <<>> THEN S_library ELSE Joined(Others(s)))
        /\ Template(i).imageNamespace # <<>>

\* C18 (amended): as above, the namespace being "library" whenever the other
\* remaining segments joined with "/" give the empty string: none remain, or
\* one empty segment remains.
C18_SegmentedImage ==
  appPayload # <<>> =>
    \A i \in DOMAIN containers :
      LET s == containers[i].image IN
      Len(Segments(s)) >= 2 =>
        /\ Template(i).imageName = Remaining(s)[Len(Remaining(s))]
        /\ Template(i).imageNamespace =
             (IF Joined(Others(s)) = <<>> THEN S_library ELSE Joined(Others(s)))
        /\ Template(i).imageNamespace # <<>>

\* The reference "a./a" lost its host and was sent as library / a; so was
\* the run's app created.
C18_Witness ==
  /\ Called(PostApps)
  /\ appPayload # <<>>
  /\ containers[1].image = <<"a", ".", "/", "a">>
  /\ Template(1).imageNamespace = S_library
  /\ Template(1).imageName = <<"a">>

\* ------------------------------------------------------------------ C19

\* The hostname the run put out
EndpointHostname == outputs.endpoint_hostname[1]

\* C19: when the application detail carries a non-empty top-level hostname
\* the run reports that hostname, whatever the container templates carry.
C19_TopLevelHostname ==
  (appDetails # <<>> /\ appDetails[1].displayEndpointAddress # <<>>) =>
    outputs.endpoint_hostname = <<appDetails[1].displayEndpointAddress>>

\* The detail carried a top-level hostname and a template endpoint with
\* another one; the top-level one was reported.
C19_Witness ==
  /\ pc = "done"
  /\ appDetails # <<>>
  /\ appDetails[1].displayEndpointAddress = S_hostC
  /\ Len(appDetails[1].containerTemplates) = 1
  /\ Len(appDetails[1].containerTemplates[1].endpoints) = 1
  /\ appDetails[1].containerTemplates[1].endpoints[1].publicHost = S_hostA
  /\ EndpointHostname = S_hostC

\* ------------------------------------------------------------------ C20

\* The endpoint hostnames of the templates, in template order and, within a
\* template, in endpoint order
RECURSIVE HostsOf(_)
HostsOf(ts) ==
  IF ts = <<>> THEN <<>>
  ELSE [k \in DOMAIN ts[1].endpoints |-> ts[1].endpoints[k].publicHost]
         \o HostsOf(Tail(ts))

\* The first non-empty string of the list, empty when there is none
FirstNonEmpty(hs) ==
  IF \E k \in DOMAIN hs : hs[k] # <<>>
    THEN hs[CHOOSE k \in DOMAIN hs : hs[k] # <<>> /\ \A j \in 1..(k - 1) : hs[j] = <<>>]
    ELSE <<>>

\* C20: when the application detail carries no top-level hostname the run
\* reports the first non-empty endpoint hostname found scanning the container
\* templates in order and their endpoints, and an empty hostname only when no
\* endpoint of any template has one.
C20_FirstEndpointHostname ==
  (appDetails # <<>> /\ appDetails[1].displayEndpointAddress = <<>>) =>
    outputs.endpoint_hostname = <<FirstNonEmpty(HostsOf(appDetails[1].containerTemplates))>>

\* ------------------------------------------------------------------ C21

S_httpScheme == <<"h","t","t","p",":","/","/">>

\* The hostname starts with a scheme
HasScheme(h) ==
  \/ Len(h) >= Len(S_httpScheme) /\ SubSeq(h, 1, Len(S_httpScheme)) = S_httpScheme
  \/ Len(h) >= Len(S_httpsScheme) /\ SubSeq(h, 1, Len(S_httpsScheme)) = S_httpsScheme

\* The URL the run put out
AppUrl == outputs.app_url[1]

\* C21: the URL put out is the resolved hostname with "https://" in front
\* whenever the hostname has no scheme, the hostname itself whenever it starts
\* with "http://" or "https://", and empty exactly when the hostname is
\* empty; an empty URL does not fail the run.
C21_DeployedUrl ==
  appDetails # <<>> =>
    /\ (EndpointHostname # <<>> /\ ~HasScheme(EndpointHostname))
         => AppUrl = S_httpsScheme \o EndpointHostname
    /\ HasScheme(EndpointHostname) => AppUrl = EndpointHostname
    /\ AppUrl = <<>> <=> EndpointHostname = <<>>
    /\ AppUrl = <<>> => ~failed

\* ------------------------------------------------------------------ C22

\* C22: in the body of POST /apps the registry identifier of a container
\* template is the private identifier when the container is built and a
\* private identifier was resolved in this run, else the Docker Hub
\* identifier when one was resolved, else the empty string.
C22_TemplateRegistryId ==
  appPayload # <<>> =>
    \A i \in DOMAIN containers :
      Template(i).imageRegistryId =
        (IF containers[i].build /\ privateRegistryId # <<>> THEN privateRegistryId
         ELSE IF dockerHubRegistryId # <<>> THEN dockerHubRegistryId
         ELSE <<>>)

\* A built and a public container were sent with two different identifiers,
\* the private one for the built container.
C22_Witness ==
  /\ Called(PostApps)
  /\ appPayload # <<>>
  /\ Len(containers) = 2
  /\ containers[1].build /\ ~containers[2].build
  /\ privateRegistryId # <<>> /\ dockerHubRegistryId # <<>>
  /\ privateRegistryId # dockerHubRegistryId
  /\ Template(1).imageRegistryId = privateRegistryId
  /\ Template(2).imageRegistryId = dockerHubRegistryId

\* ------------------------------------------------------------------ C23

\* The endpoints of the i-th container template
TemplateEndpoints(i) == Template(i).endpoints

\* The i-th container was given an endpoint it did not declare
Synthesized(i) == Len(TemplateEndpoints(i)) > Len(containers[i].endpoints)

\* The i-th container is the exposed container: the one named by
\* endpoint_container if that is given, else the first one declaring a port,
\* else the first one
IsExposed(i) ==
  IF inp.endpointContainer # <<>> THEN containers[i].name = inp.endpointContainer
  ELSE IF \E j \in DOMAIN containers : containers[j].port # 0
    THEN containers[i].port # 0 /\ \A j \in 1..(i - 1) : containers[j].port = 0
  ELSE i = 1

\* C23: at most one container of an app receives a synthesized endpoint; it
\* is the exposed container, and it receives one only if endpoint creation is
\* enabled and it declares a port.
C23_OneSynthesizedEndpoint ==
  appPayload # <<>> =>
    /\ Cardinality({i \in DOMAIN containers : Synthesized(i)}) <= 1
    /\ \A i \in DOMAIN containers :
         Synthesized(i) => IsExposed(i) /\ createEndpoint /\ containers[i].port # 0

\* ------------------------------------------------------------------ C24

\* The port mappings an endpoint object of the payload carries
MappingsOf(e) ==
  IF e.cdn # <<>> THEN e.cdn[1].portMappings
  ELSE IF e.anycast # <<>> THEN e.anycast[1].portMappings
  ELSE <<>>

\* The port mappings an endpoint declaration asks for
DeclaredMappings(ep) ==
  [k \in DOMAIN ep.ports |->
     [containerPort |-> ep.ports[k].container, exposedPort |-> ep.ports[k].exposed]]

\* C24: a container with at least one declared endpoint gets exactly one
\* endpoint object per declaration, in declaration order, each with the
\* declared port mappings in order, and no synthesized endpoint; only a
\* container without declarations can get a synthesized endpoint.
C24_DeclaredEndpoints ==
  appPayload # <<>> =>
    \A i \in DOMAIN containers :
      /\ Len(containers[i].endpoints) > 0 =>
           /\ Len(TemplateEndpoints(i)) = Len(containers[i].endpoints)
           /\ \A k \in DOMAIN containers[i].endpoints :
                /\ TemplateEndpoints(i)[k].displayName = containers[i].endpoints[k].name
                /\ MappingsOf(TemplateEndpoints(i)[k])
                     = DeclaredMappings(containers[i].endpoints[k])
      /\ Synthesized(i) => containers[i].endpoints = <<>>

\* ------------------------------------------------------------------ C25

\* Some container of the chosen source declares an endpoint
DeclaresEndpoint == \E i \in DOMAIN ChosenItems : Len(ChosenItems[i].endpoints) > 0

\* C25: with a descriptor file endpoint creation is enabled exactly when some
\* container declares an endpoint, whatever the create_endpoint input says;
\* with the inline list it is enabled exactly when create_endpoint is set.
C25_EndpointPolicy ==
  ConfigLoaded =>
    /\ inp.hasToml => (createEndpoint <=> DeclaresEndpoint)
    /\ ~inp.hasToml => (createEndpoint <=> inp.createEndpointInput)
    /\ Called(GetAppDetail) => createEndpoint

\* A descriptor file with a declared endpoint and create_endpoint off: the
\* run fetched the endpoint all the same.
C25_Witness ==
  /\ ConfigLoaded
  /\ inp.hasToml
  /\ ~inp.createEndpointInput
  /\ DeclaresEndpoint
  /\ createEndpoint
  /\ Called(GetAppDetail)

\* ------------------------------------------------------------------ C26

\* The run has passed the decision of the private-registry block
PastPrivateDecision == pc \in AfterRegistryStage \cup {"createPrivateWait"}

\* Some container of the run is built
SomeBuild == \E i \in DOMAIN containers : containers[i].build

\* C26: the create call for the private registry is issued exactly when some
\* container is built, provisioning is enabled and no listed registry has a
\* display name equal to the requested name case-insensitively; with a name
\* given, provisioning disabled and no match, nothing is created and no
\* private identifier is resolved; when no container is built no private
\* registry is looked up or created.
C26_PrivateCreateCondition ==
  /\ PastPrivateDecision =>
       (Called(PostRegistryPrivate) <=>
          (SomeBuild /\ inp.ensureBunnyRegistry /\ NameMatches(registryItems) = {}))
  /\ (PastPrivateDecision /\ inp.bunnyRegistryName # <<>> /\ ~inp.ensureBunnyRegistry
        /\ NameMatches(registryItems) = {})
       => ~Called(PostRegistryPrivate) /\ privateRegistryId = <<>>
  /\ ~SomeBuild => ~Called(PostRegistryPrivate) /\ privateRegistryId = <<>>

\* The account listed registries, none of them under the requested name; the
\* private registry was created and its identifier resolved.
C26_Witness ==
  /\ pc = "createApp"
  /\ SomeBuild
  /\ inp.ensureBunnyRegistry
  /\ registryItems # <<>>
  /\ NameMatches(registryItems) = {}
  /\ Called(PostRegistryPrivate)
  /\ privateRegistryId # <<>>

\* ------------------------------------------------------------------ C27

\* The parse defaults of the run
ParseDefaults == [registry |-> inp.registry, sha |-> DefaultBuildId]

\* The entries of the chosen source resolved through the other source: the
\* inline parser for the entries of a file, the file parser (in a file
\* naming the app as the run does) for the entries of the inline list
ViaOtherSource ==
  IF inp.hasToml
    THEN parseFromYaml(Inline(ChosenItems), ParseDefaults)
    ELSE LET r == parseFromToml([name |-> inp.appName, containers |-> ChosenItems],
                                ParseDefaults)
         IN  IF r.ok THEN Ok(r.val.containers) ELSE r

\* The run was ended by the validation of a container entry
EntryRejected ==
  ConfigFailed /\ error[1].what \in {"missing name", "missing image"}

\* C27: the same container entries, without endpoints, given through the
\* inline list and through the descriptor file resolve to the same
\* containers, or are rejected through both.
C27_SourcesAgree ==
  /\ ConfigLoaded => ViaOtherSource.ok /\ ViaOtherSource.val = containers
  /\ (pc # "start" /\ EntryRejected) => ~ViaOtherSource.ok

\* ------------------------------------------------------------------ C28

\* C28: with waiting enabled and the clock advancing by the poll interval on
\* every sleep, a run that is Deploying eventually becomes Active or
\* TimedOut, for every timeout and every sequence of statuses the polls
\* return (a poll that fails instead of returning a status ends the run
\* failed).
C28_PollingTerminates ==
  (inp.waitForDeploy /\ DeployState = "Deploying")
    ~> (DeployState \in {"Active", "TimedOut"} \/ failed)

\* The loop polled twice without reading a success status and was left at
\* the deadline: the run is TimedOut.
C28_Witness ==
  /\ inp.waitForDeploy
  /\ PollCount = 2
  /\ \A i \in DOMAIN statuses : ~isActive(statuses[i])
  /\ DeployState = "TimedOut"
  /\ ~failed

\* ------------------------------------------------------------------ C29

\* C29: every container list the config stage resolves is non-empty: a
\* source that yields no container never leads to a registry call or to the
\* app-creation call.
C29_NonEmptyContainers ==
  /\ ConfigLoaded => containers # <<>>
  /\ (pc # "start" /\ ChosenItems = <<>>)
       => ~Called(GetRegistries) /\ ~Called(PostApps)

\* ------------------------------------------------------------------ C30

\* The step issues a status poll
IssuesPoll == Count(calls', GetAppStatus) > Count(calls, GetAppStatus)

\* The run has left the deploy stage
PastDeployStage == pc \in {"endpoint", "endpointWait"}

\* C30: every status poll of the loop is issued at a time strictly before
\* the deadline, and with waiting enabled and a timeout of zero or less the
\* loop issues no poll and the timeout warning is raised all the same.
C30_NoPollAtDeadline ==
  /\ [][IssuesPoll => (~deadline.nan /\ now < deadline.v)]_vars
  /\ [](( inp.waitForDeploy /\ ~inp.timeout.nan /\ inp.timeout.v <= 0)
          => /\ PollCount = 0
             /\ PastDeployStage => warning)

\* Waiting with a timeout of zero: the run left the deploy stage with the
\* warning and without a poll.
C30_Witness ==
  /\ inp.waitForDeploy
  /\ ~inp.timeout.nan /\ inp.timeout.v = 0
  /\ PastDeployStage
  /\ Called(PostDeploy)
  /\ PollCount = 0
  /\ warning

\* ------------------------------------------------------------------ C31

\* Both identifiers were resolved by this run
BothResolved == dockerHubRegistryId # <<>> /\ privateRegistryId # <<>>

\* C31: whenever a run resolves both a public pull identifier and a private
\* push identifier, the two are identifiers of different registries.
C31_DistinctRegistries ==
  BothResolved => dockerHubRegistryId # privateRegistryId

\* ------------------------------------------------------------------ C32

\* The endpoint object carries exactly one of the two kinds
OneKind(e) == (e.cdn # <<>>) # (e.anycast # <<>>)

\* The port mappings the k-th endpoint object of the i-th template stands
\* for: those of the k-th declaration, or the port of the container when the
\* endpoint is synthesized
ExpectedMappings(i, k) ==
  IF Len(containers[i].endpoints) > 0
    THEN DeclaredMappings(containers[i].endpoints[k])
    ELSE <<[containerPort |-> containers[i].port, exposedPort |-> 0]>>

\* C32: every endpoint object of the app-creation payload, translated from a
\* declaration or synthesized from the run-level defaults, carries exactly
\* one of the two kinds, a CDN block or an Anycast block, and that block
\* holds its port mappings, whatever endpoint type is declared or given.
C32_ExactlyOneKind ==
  appPayload # <<>> =>
    \A i \in DOMAIN containers :
      \A k \in DOMAIN TemplateEndpoints(i) :
        /\ OneKind(TemplateEndpoints(i)[k])
        /\ MappingsOf(TemplateEndpoints(i)[k]) = ExpectedMappings(i, k)

====
